---- MODULE Spec2Model ----
(***************************************************************************)
(* A model of the crust scanner (src/src/scanner.rs) and of the keyword    *)
(* lookup of the token model (src/crust_grammar/src/lib.rs).               *)
(*                                                                         *)
(* The source text is a sequence of BYTES.  An ASCII character is one byte *)
(* and is written as the one-character string of that character; the one   *)
(* multi-byte character of the model, U+00A2 (the cent sign, which is not   *)
(* alphabetic), is the two bytes "C2" "A2".  Offsets are 0-based byte       *)
(* positions as in the Rust code: the byte at offset i is source[i + 1].    *)
(***************************************************************************)
EXTENDS Integers, Sequences, FiniteSets, TLC

VARIABLES source, start, current, line, tokens, errors, pc, result, call

vars == <<source, start, current, line, tokens, errors, pc, result, call>>

----------------------------------------------------------------------------
(* Bounds of the model.                                                    *)

MaxLen == 3

(* The keyword lookup is called with texts of up to MaxTextLen letters of  *)
(* TextLetters (and with the texts of KeywordTexts below), with offsets up  *)
(* to MaxOffset and lines up to MaxLineNo.                                  *)
MaxTextLen == 3
MaxOffset == 2
MaxLineNo == 2

(* The printer is called with the expression trees of up to MaxNodes nodes. *)
MaxNodes == 4

(* The characters sources are built from: one or more of every class the   *)
(* dispatch of scan_token distinguishes, letters, and a multi-byte char.    *)
Alphabet ==
    {"(", ".", "=", "!", "/", "1", " ", "\n", "\"", "$", "&", "i", "F", "U+00A2",
     "\\"}

----------------------------------------------------------------------------
(* Characters and their UTF-8 encoding.                                    *)

Cent == "U+00A2"

ContinuationBytes == {"A2"}

Encode(c) == IF c = Cent THEN <<"C2", "A2">> ELSE <<c>>

RECURSIVE EncodeAll(_)
EncodeAll(cs) ==
    IF cs = <<>> THEN <<>> ELSE Encode(Head(cs)) \o EncodeAll(Tail(cs))

RECURSIVE CharSeqs(_)
CharSeqs(n) ==
    IF n = 0 THEN {<<>>}
    ELSE LET shorter == CharSeqs(n - 1)
         IN  shorter \cup {Append(s, c) : s \in {t \in shorter : Len(t) = n - 1},
                                          c \in Alphabet}

Sources == {EncodeAll(cs) : cs \in CharSeqs(MaxLen)}

(* The sources of the tests of scanner.rs.                                 *)
TestSources ==
    {<<"(", ")", "{", "}", ",", ".", "-", "+", ";", "*">>,
     <<"=", "=", "!", "=", "=", "!", "<", "=", "<", ">", "=", ">">>,
     <<"(", ")", " ", "{", "}", "\n", ",", ".", "-", "\t", "+", ";", "*">>,
     <<"(", "/", "/", " ", "t", "h", "i", "s", " ", "i", "s", " ", "i", "g", "n", "o", "r", "e", "d", ")", "\n", ")", "/">>,
     <<"(", "1", ".", "3", ".", ")", "2", "5", ".">>,
     <<"(", "1", ".", "3", ")", "2", "5">>,
     <<"(", "\"", "T", "h", "i", "s", " ", "i", "s", " ", "a", " ", "s", "t", "r", "i", "n", "g", "\"", ")">>}

(* Further sources, longer than MaxLen: operators, whitespace, comments,  *)
(* numbers at the ends of the 32-bit range, strings.                       *)
MoreSources ==
    {<<"<", "=", ">">>,
     <<">", " ", "=">>,
     <<"\r", "\n", "(", "\t", ")">>,
     <<"/", "/", "$", "\"", "1", "/", "\n", "/">>,
     <<"2", "5", ".">>,
     <<"0", "0", "7">>,
     <<"0", ".", "5", "0">>,
     <<"1", ".", "3", ".", "5">>,
     <<"(", "\"", "a", "b", "c", "\"", ")">>,
     <<"\"", "a", "\\", "\"", "b", "\"">>,
     <<"\"", "a", "\n", "b", "\"", "\n", "(">>,
     <<"2", "1", "4", "7", "4", "8", "3", "6", "4", "7">>,
     <<"2", "1", "4", "7", "4", "8", "3", "6", "4", "8">>,
     <<"2", "1", "4", "7", "4", "8", "3", "6", "4", "8", "(">>,
     <<"2", "1", "4", "7", "4", "8", "3", "6", "4", "8", "\n", "(">>,
     <<"0", "2", "1", "4", "7", "4", "8", "3", "6", "4", "7">>,
     <<"9", "9", "9", "9", "9", "9", "9", "9", "9", "9", "9", " ", "1">>,
     <<"2", "1", "4", "7", "4", "8", "3", "6", "4", "8", ".", "5">>,
     <<"2", "1", "4", "7", "4", "8", "3", "6", "4", "8", "C2", "A2">>}

ExampleSources == TestSources \cup MoreSources

(* str::is_char_boundary: 0, len, and every byte that is not a             *)
(* continuation byte.                                                       *)
IsCharBoundary(src, i) ==
    \/ i = 0
    \/ i = Len(src)
    \/ i > 0 /\ i < Len(src) /\ src[i + 1] \notin ContinuationBytes

Digits == {"0", "1", "2", "3", "4", "5", "6", "7", "8", "9"}

DigitVal(c) ==
    CASE c = "0" -> 0 [] c = "1" -> 1 [] c = "2" -> 2 [] c = "3" -> 3
      [] c = "4" -> 4 [] c = "5" -> 5 [] c = "6" -> 6 [] c = "7" -> 7
      [] c = "8" -> 8 [] c = "9" -> 9

is_ascii_digit(c) == c \in Digits

(* What a read of a character yields when the slice panics, and the '\0'   *)
(* that peek and peek_next return at the end of the input.                  *)
PanicChar == "PANIC"
Nul == "NUL"

----------------------------------------------------------------------------
(* Tokens and errors.                                                      *)

SimpleToken(type, offset, ln) == [type |-> type, offset |-> offset, line |-> ln]

(* A mutant of LiteralToken: the length is the end offset of the lexeme.    *)
LiteralTokenLengthIsEnd(type, offset, length, ln, value) ==
    [type |-> type, offset |-> offset, length |-> offset + length, line |-> ln,
     value |-> value]

LiteralToken(type, offset, length, ln, value) ==
    [type |-> type, offset |-> offset, length |-> length, line |-> ln,
     value |-> value]

ScanErr(ln, message) == [line |-> ln, message |-> message]

(* The single-character symbols of scan_token and their token types.       *)
SingleCharSymbols == {"(", ")", "{", "}", ",", ".", "-", "+", ";", "*"}

SingleCharType(c) ==
    CASE c = "(" -> "LeftParen"  [] c = ")" -> "RightParen"
      [] c = "{" -> "LeftBrace"  [] c = "}" -> "RightBrace"
      [] c = "," -> "Comma"      [] c = "." -> "Dot"
      [] c = "-" -> "Minus"      [] c = "+" -> "Plus"
      [] c = ";" -> "Semicolon"  [] c = "*" -> "Star"

(* The characters that may be followed by '=' and their two token types.   *)
OneOrTwoCharSymbols == {"!", "=", "<", ">"}

OneCharType(c) ==
    CASE c = "!" -> "Bang" [] c = "=" -> "Equal"
      [] c = "<" -> "Less" [] c = ">" -> "Greater"

TwoCharType(c) ==
    CASE c = "!" -> "BangEqual" [] c = "=" -> "EqualEqual"
      [] c = "<" -> "LessEqual" [] c = ">" -> "GreaterEqual"

----------------------------------------------------------------------------
(* The token model: TokenType (the discriminants of Token, parsed from     *)
(* their names without regard to ASCII case) and try_as_keyword.  A text   *)
(* is a sequence of characters.                                             *)

UpperCase ==
    <<"A", "B", "C", "D", "E", "F", "G", "H", "I", "J", "K", "L", "M",
      "N", "O", "P", "Q", "R", "S", "T", "U", "V", "W", "X", "Y", "Z">>

LowerCase ==
    <<"a", "b", "c", "d", "e", "f", "g", "h", "i", "j", "k", "l", "m",
      "n", "o", "p", "q", "r", "s", "t", "u", "v", "w", "x", "y", "z">>

to_ascii_lowercase(c) ==
    IF \E k \in 1..26 : UpperCase[k] = c
    THEN LowerCase[CHOOSE k \in 1..26 : UpperCase[k] = c]
    ELSE c

eq_ignore_ascii_case(a, b) ==
    /\ Len(a) = Len(b)
    /\ \A k \in 1..Len(a) : to_ascii_lowercase(a[k]) = to_ascii_lowercase(b[k])

(* The variants of Token that try_as_keyword maps to a token.              *)
KeywordVariants ==
    {
     [name |-> <<"C", "l", "a", "s", "s">>, type |-> "Class"],
     [name |-> <<"I", "f">>, type |-> "If"],
     [name |-> <<"E", "l", "s", "e">>, type |-> "Else"],
     [name |-> <<"T", "r", "u", "e">>, type |-> "True"],
     [name |-> <<"F", "a", "l", "s", "e">>, type |-> "False"],
     [name |-> <<"F", "n">>, type |-> "Fn"],
     [name |-> <<"F", "o", "r">>, type |-> "For"],
     [name |-> <<"M", "u", "t">>, type |-> "Mut"],
     [name |-> <<"W", "h", "i", "l", "e">>, type |-> "While"],
     [name |-> <<"L", "o", "o", "p">>, type |-> "Loop"],
     [name |-> <<"B", "r", "e", "a", "k">>, type |-> "Break"],
     [name |-> <<"R", "e", "t", "u", "r", "n">>, type |-> "Return"],
     [name |-> <<"T", "h", "i", "s">>, type |-> "This"],
     [name |-> <<"S", "u", "p", "e", "r">>, type |-> "Super"],
     [name |-> <<"L", "e", "t">>, type |-> "Let"]
    }

(* The other variants of Token: symbols, Eof and the literals.             *)
OtherVariants ==
    {
     [name |-> <<"L", "e", "f", "t", "P", "a", "r", "e", "n">>, type |-> "LeftParen"],
     [name |-> <<"R", "i", "g", "h", "t", "P", "a", "r", "e", "n">>, type |-> "RightParen"],
     [name |-> <<"L", "e", "f", "t", "B", "r", "a", "c", "e">>, type |-> "LeftBrace"],
     [name |-> <<"R", "i", "g", "h", "t", "B", "r", "a", "c", "e">>, type |-> "RightBrace"],
     [name |-> <<"C", "o", "m", "m", "a">>, type |-> "Comma"],
     [name |-> <<"D", "o", "t">>, type |-> "Dot"],
     [name |-> <<"M", "i", "n", "u", "s">>, type |-> "Minus"],
     [name |-> <<"P", "l", "u", "s">>, type |-> "Plus"],
     [name |-> <<"S", "e", "m", "i", "c", "o", "l", "o", "n">>, type |-> "Semicolon"],
     [name |-> <<"S", "l", "a", "s", "h">>, type |-> "Slash"],
     [name |-> <<"S", "t", "a", "r">>, type |-> "Star"],
     [name |-> <<"B", "a", "n", "g">>, type |-> "Bang"],
     [name |-> <<"B", "a", "n", "g", "E", "q", "u", "a", "l">>, type |-> "BangEqual"],
     [name |-> <<"E", "q", "u", "a", "l">>, type |-> "Equal"],
     [name |-> <<"E", "q", "u", "a", "l", "E", "q", "u", "a", "l">>, type |-> "EqualEqual"],
     [name |-> <<"G", "r", "e", "a", "t", "e", "r">>, type |-> "Greater"],
     [name |-> <<"G", "r", "e", "a", "t", "e", "r", "E", "q", "u", "a", "l">>, type |-> "GreaterEqual"],
     [name |-> <<"L", "e", "s", "s">>, type |-> "Less"],
     [name |-> <<"L", "e", "s", "s", "E", "q", "u", "a", "l">>, type |-> "LessEqual"],
     [name |-> <<"B", "i", "t", "A", "n", "d">>, type |-> "BitAnd"],
     [name |-> <<"B", "i", "t", "O", "r">>, type |-> "BitOr"],
     [name |-> <<"A", "n", "d">>, type |-> "And"],
     [name |-> <<"O", "r">>, type |-> "Or"],
     [name |-> <<"E", "o", "f">>, type |-> "Eof"],
     [name |-> <<"I", "d", "e", "n", "t", "i", "f", "i", "e", "r">>, type |-> "Identifier"],
     [name |-> <<"S", "t", "r", "i", "n", "g">>, type |-> "String"],
     [name |-> <<"F", "l", "o", "a", "t">>, type |-> "Float"],
     [name |-> <<"I", "n", "t", "e", "g", "e", "r">>, type |-> "Integer"]
    }

(* TokenType::from_str: the variant whose name is the text, ASCII case     *)
(* aside, or "Err".                                                         *)
TokenTypeFromStr(text) ==
    LET hits == {v \in KeywordVariants \cup OtherVariants :
                    eq_ignore_ascii_case(v.name, text)}
    IN  IF hits = {} THEN "Err" ELSE (CHOOSE v \in hits : TRUE).type

NoToken == [type |-> "None"]

(* A mutant of try_as_keyword: the arm `_ => None` is missing, every        *)
(* variant that parses is returned.                                         *)
try_as_keyword_AnyVariant(text, offset, ln) ==
    LET token_type == TokenTypeFromStr(text)
    IN  IF token_type # "Err"
        THEN SimpleToken(token_type, offset, ln)
        ELSE NoToken

try_as_keyword(text, offset, ln) ==
    LET token_type == TokenTypeFromStr(text)
    IN  IF token_type \in {v.type : v \in KeywordVariants}
        THEN SimpleToken(token_type, offset, ln)
        ELSE NoToken

----------------------------------------------------------------------------
(* The scanner's cursor helpers.  A scanner state s is the record of the   *)
(* fields of Scanner and of the errors vector scan_tokens owns, with a     *)
(* flag that says a slice has panicked.                                     *)

(* A mutant of is_at_end: the end is taken to be one past the last byte.   *)
is_at_end_OnePast(src, s) == s.current > Len(src)

is_at_end(src, s) == s.current >= Len(src)

(* self.source[index..index + 1].chars().next().unwrap(): the slice panics *)
(* when index + 1 is beyond the end or when either end is inside a         *)
(* multi-byte character; a one-byte slice that is valid is that byte.       *)
char_at(src, index) ==
    IF /\ index + 1 <= Len(src)
       /\ IsCharBoundary(src, index)
       /\ IsCharBoundary(src, index + 1)
    THEN src[index + 1]
    ELSE PanicChar

Panicked(s) == [s EXCEPT !.panicked = TRUE]

(* advance: the cursor moves first, then the character is read.            *)
advance(src, s) ==
    LET c == char_at(src, s.current)
        moved == [s EXCEPT !.current = @ + 1]
    IN  [s |-> IF c = PanicChar THEN Panicked(moved) ELSE moved, c |-> c]

advance_if(src, s, pattern) ==
    IF is_at_end(src, s) THEN [s |-> s, b |-> FALSE]
    ELSE LET c == char_at(src, s.current)
         IN  IF c = PanicChar THEN [s |-> Panicked(s), b |-> FALSE]
             ELSE IF c # pattern THEN [s |-> s, b |-> FALSE]
             ELSE [s |-> [s EXCEPT !.current = @ + 1], b |-> TRUE]

peek(src, s) == IF is_at_end(src, s) THEN Nul ELSE char_at(src, s.current)

(* A mutant of peek_next: the bound is tested for the cursor itself.       *)
peek_next_BoundOfPeek(src, s) ==
    IF s.current >= Len(src) THEN Nul ELSE char_at(src, s.current + 1)

peek_next(src, s) ==
    IF s.current + 1 >= Len(src) THEN Nul ELSE char_at(src, s.current + 1)

(* &self.source[a..b] for offsets a <= b that are character boundaries.    *)
Slice(src, a, b) == SubSeq(src, a + 1, b)

----------------------------------------------------------------------------
(* The line comment loop of scan_token:                                    *)
(*   while self.peek() != '\n' && !self.is_at_end() { self.advance(); }    *)

RECURSIVE SkipComment(_, _)
SkipComment(src, s) ==
    LET c == peek(src, s)
    IN  IF c = PanicChar THEN Panicked(s)
        ELSE IF c # "\n" /\ ~is_at_end(src, s)
        THEN SkipComment(src, advance(src, s).s)
        ELSE s

----------------------------------------------------------------------------
(* take_string_literal.                                                    *)

RECURSIVE StringBody(_, _)
StringBody(src, s) ==
    LET c == peek(src, s)
    IN  IF c = PanicChar THEN Panicked(s)
        ELSE IF c # "\"" /\ ~is_at_end(src, s)
        THEN LET counted == IF c = "\n" THEN [s EXCEPT !.line = @ + 1] ELSE s
             IN  StringBody(src, advance(src, counted).s)
        ELSE s

take_string_literal(src, s0) ==
    LET s == StringBody(src, s0)
    IN  IF s.panicked THEN s
        ELSE IF is_at_end(src, s)
        THEN [s EXCEPT !.errors =
                 Append(@, ScanErr(s.line, "Unterminated string literal"))]
        ELSE LET a == advance(src, s).s
             IN  [a EXCEPT !.tokens =
                     Append(@, LiteralToken("String", a.start,
                                            a.current - a.start, a.line,
                                            Slice(src, a.start + 1, a.current - 1)))]

----------------------------------------------------------------------------
(* take_number_literal.                                                    *)

I32Max == 2147483647

(* i32::from_str on a run of decimal digits: the value, or -1 for the Err  *)
(* of a value above i32::MAX.  The bound is tested before each step so     *)
(* that no intermediate value leaves the 32-bit range.                      *)
RECURSIVE ParseI32From(_, _)
ParseI32From(digs, acc) ==
    IF digs = <<>> THEN acc
    ELSE LET d == DigitVal(Head(digs))
         IN  IF acc > (I32Max - d) \div 10 THEN -1
             ELSE ParseI32From(Tail(digs), acc * 10 + d)

ParseI32(digs) == ParseI32From(digs, 0)

RECURSIVE StripLeadingZeros(_)
StripLeadingZeros(digs) ==
    IF digs # <<>> /\ Head(digs) = "0" THEN StripLeadingZeros(Tail(digs))
    ELSE digs

RECURSIVE StripTrailingZeros(_)
StripTrailingZeros(digs) ==
    IF digs # <<>> /\ digs[Len(digs)] = "0"
    THEN StripTrailingZeros(SubSeq(digs, 1, Len(digs) - 1))
    ELSE digs

DotIndex(lit) == CHOOSE i \in 1..Len(lit) : lit[i] = "."

(* f32::from_str on digits '.' digits, which never fails: the decimal      *)
(* number in normal form (integer part without leading zeros, fraction     *)
(* without trailing zeros).  The rounding to 24 bits of mantissa is not    *)
(* modelled.                                                                *)
ParseF32(lit) ==
    [int  |-> StripLeadingZeros(SubSeq(lit, 1, DotIndex(lit) - 1)),
     frac |-> StripTrailingZeros(SubSeq(lit, DotIndex(lit) + 1, Len(lit)))]

(* while self.peek().is_ascii_digit() { self.advance(); }                  *)
RECURSIVE DigitRun(_, _)
DigitRun(src, s) ==
    LET c == peek(src, s)
    IN  IF c = PanicChar THEN Panicked(s)
        ELSE IF is_ascii_digit(c) THEN DigitRun(src, advance(src, s).s)
        ELSE s

(* if self.peek() == '.' && self.peek_next().is_ascii_digit() { ... }      *)
Fraction(src, s) ==
    IF peek(src, s) # "."
    THEN s
    ELSE LET n == peek_next(src, s)
         IN  IF n = PanicChar THEN Panicked(s)
             ELSE IF is_ascii_digit(n) THEN DigitRun(src, advance(src, s).s)
             ELSE s

take_number_literal(src, s0) ==
    LET s1 == DigitRun(src, s0)
        s  == IF s1.panicked THEN s1 ELSE Fraction(src, s1)
        literal == Slice(src, s.start, s.current)
    IN  IF s.panicked THEN s
        ELSE IF \E i \in 1..Len(literal) : literal[i] = "."
        THEN [s EXCEPT !.tokens =
                 Append(@, LiteralToken("Float", s.start, s.current - s.start,
                                        s.line, ParseF32(literal)))]
        ELSE IF ParseI32(literal) # -1
        THEN [s EXCEPT !.tokens =
                 Append(@, LiteralToken("Integer", s.start, s.current - s.start,
                                        s.line, ParseI32(literal)))]
        ELSE [s EXCEPT !.errors =
                 Append(@, ScanErr(s.line, "Invalid integer value"))]

----------------------------------------------------------------------------
(* scan_token: one iteration of the main loop after start = current.       *)

(* A mutant of Whitespace: the newline is skipped like a space.             *)
WhitespaceAndNewline == {" ", "\t", "\r", "\n"}

(* ' ' | '\t' | '\r' => {}                                                  *)
Whitespace == {" ", "\t", "\r"}

(* A mutant of PushSimple: the offset is taken after the lexeme.            *)
PushSimpleAtCursor(s, type, offset) ==
    [s EXCEPT !.tokens = Append(@, SimpleToken(type, s.current, s.line))]

PushSimple(s, type, offset) ==
    [s EXCEPT !.tokens = Append(@, SimpleToken(type, offset, s.line))]

scan_token(src, s0) ==
    LET a == advance(src, s0)
        s == a.s
        char == a.c
    IN  CASE char = PanicChar -> s
          [] char \in SingleCharSymbols ->
                PushSimple(s, SingleCharType(char), s.current - 1)
          [] char \in OneOrTwoCharSymbols ->
                LET m == advance_if(src, s, "=")
                IN  IF m.s.panicked THEN m.s
                    ELSE IF m.b
                    THEN PushSimple(m.s, TwoCharType(char), m.s.current - 2)
                    ELSE PushSimple(m.s, OneCharType(char), m.s.current - 1)
          [] char = "/" ->
                LET m == advance_if(src, s, "/")
                IN  IF m.s.panicked THEN m.s
                    ELSE IF m.b THEN SkipComment(src, m.s)
                    ELSE PushSimple(m.s, "Slash", m.s.current - 1)
          [] char \in Digits -> take_number_literal(src, s)
          [] char \in Whitespace -> s
          [] char = "\n" -> [s EXCEPT !.line = @ + 1]
          [] char = "\"" -> take_string_literal(src, s)
          [] OTHER ->
                [s EXCEPT !.errors =
                    Append(@, ScanErr(s.line, "Unexpected character"))]

----------------------------------------------------------------------------
(* The scan as a state machine: Scanner::new, then scan_tokens.            *)

Self ==
    [start |-> start, current |-> current, line |-> line, tokens |-> tokens,
     errors |-> errors, panicked |-> FALSE]

(* A mutant of EofToken: the offset of the last lexeme's start.             *)
EofTokenAtStart == SimpleToken("Eof", start, line)

EofToken == SimpleToken("Eof", current, line)

NoResult == [kind |-> "None"]

(* The variable call holds the call of a pure function (the keyword lookup, *)
(* the printer); the scan does not use it.                                  *)
NoCall == [fn |-> "none"]

(* A mutant of ScanResult: the tokens are returned whatever was recorded.   *)
ScanResultAlwaysOk(toks, errs) == [kind |-> "Ok", tokens |-> toks]

(* if !errors.is_empty() { Err(Multi { errors }) } else { Ok(self.tokens) } *)
ScanResult(toks, errs) ==
    IF errs # <<>>
    THEN [kind |-> "Err", errors |-> errs]
    ELSE [kind |-> "Ok", tokens |-> toks]

(* Scanner::new(source), and the empty errors vector of scan_tokens.       *)
Init ==
    /\ source \in Sources \cup ExampleSources
    /\ start = 0
    /\ current = 0
    /\ line = 1
    /\ tokens = <<>>
    /\ errors = <<>>
    /\ pc = "scanning"
    /\ result = NoResult
    /\ call = NoCall

(* One iteration of the while loop of scan_tokens.  A panic unwinds out of *)
(* scan_tokens: no result is returned.                                      *)
ScanStep ==
    /\ pc = "scanning"
    /\ ~is_at_end(source, Self)
    /\ LET s == scan_token(source, [Self EXCEPT !.start = current])
       IN  /\ start' = s.start
           /\ current' = s.current
           /\ line' = s.line
           /\ tokens' = s.tokens
           /\ errors' = s.errors
           /\ pc' = IF s.panicked THEN "panicked" ELSE "scanning"
    /\ UNCHANGED <<source, result, call>>

(* The loop has ended: the Eof token is pushed and the result returned.    *)
Finish ==
    /\ pc = "scanning"
    /\ is_at_end(source, Self)
    /\ tokens' = Append(tokens, EofToken)
    /\ result' = ScanResult(tokens', errors)
    /\ pc' = "done"
    /\ UNCHANGED <<source, start, current, line, errors, call>>

Next == ScanStep \/ Finish

Spec == Init /\ [][Next]_vars

----------------------------------------------------------------------------
(* The lexical classes of the specification, used to state the claims.     *)

Letters == {LowerCase[k] : k \in 1..26} \cup {UpperCase[k] : k \in 1..26}

IsIdentStart(c) == c \in Letters \cup {"_"}

IsIdentPart(c) == IsIdentStart(c) \/ c \in Digits

(* The character whose encoding starts at offset i of src.                 *)
CharAtOffset(src, i) == IF src[i + 1] = "C2" THEN Cent ELSE src[i + 1]

(* The offset after the maximal run of identifier characters from i.       *)
RECURSIVE IdentRunEnd(_, _)
IdentRunEnd(src, i) ==
    IF i < Len(src) /\ IsIdentPart(src[i + 1]) THEN IdentRunEnd(src, i + 1)
    ELSE i

IdentRun(src, i) == Slice(src, i, IdentRunEnd(src, i))

(* The characters that match a lexical rule of the specification.          *)
MatchesARule(c) ==
    \/ c \in SingleCharSymbols \cup OneOrTwoCharSymbols
    \/ c \in {"/", "&", "|", " ", "\t", "\r", "\n", "\""}
    \/ c \in Digits
    \/ IsIdentStart(c)

NewlinesBefore(src, offset) == Cardinality({k \in 1..offset : src[k] = "\n"})

(* The scanner is about to scan a token that starts at offset current.     *)
AtTokenStart == pc = "scanning" /\ current < Len(source)

(* ... and that token starts an identifier-shaped lexeme: the character    *)
(* before it, if any, is not an identifier character.                       *)
AtWordStart ==
    /\ AtTokenStart
    /\ IsIdentStart(source[current + 1])
    /\ current > 0 => ~IsIdentPart(source[current])

----------------------------------------------------------------------------
(* C1: every scan ends with a result, Ok or Err, never with neither; an Ok *)
(* result ends with the Eof token; the cursor stays within the source, so  *)
(* the number of iterations is bounded by its length.                       *)
C1_ScanProducesResult ==
    /\ pc # "scanning" => result.kind \in {"Ok", "Err"}
    /\ result.kind = "Ok" => result.tokens[Len(result.tokens)].type = "Eof"
    /\ current <= Len(source)

(* C2: a successful scan returns exactly one Eof token, the last one, at   *)
(* offset source.len(), without a length; the empty source yields [Eof].    *)
C2_ExactlyOneEof ==
    result.kind = "Ok" =>
        LET toks == result.tokens
        IN  /\ Len(toks) >= 1
            /\ toks[Len(toks)].type = "Eof"
            /\ toks[Len(toks)].offset = Len(source)
            /\ "length" \notin DOMAIN toks[Len(toks)]
            /\ \A k \in 1..(Len(toks) - 1) : toks[k].type # "Eof"
            /\ source = <<>> => toks = <<SimpleToken("Eof", 0, 1)>>

(* A successful scan of a source of two bytes or more that has tokens      *)
(* before the Eof token.                                                    *)
C2_Witness ==
    /\ result.kind = "Ok"
    /\ Len(source) >= 2
    /\ Len(result.tokens) >= 2

(* C3: a lexeme that is a reserved word, ASCII case aside, is scanned as   *)
(* that keyword token at the lexeme's offset and line, without an error.    *)
C3_KeywordLexeme ==
    [][(AtWordStart /\ try_as_keyword(IdentRun(source, current), current, line) # NoToken)
          => /\ tokens' = Append(tokens, try_as_keyword(IdentRun(source, current),
                                                        current, line))
             /\ errors' = errors
             /\ current' = IdentRunEnd(source, current)]_vars

(* C4: a lexeme that starts with a letter or underscore and is no reserved *)
(* word is scanned as one Identifier token holding the maximal run.         *)
C4_IdentifierLexeme ==
    [][(AtWordStart /\ try_as_keyword(IdentRun(source, current), current, line) = NoToken)
          => /\ tokens' = Append(tokens,
                                 LiteralToken("Identifier", current,
                                              Len(IdentRun(source, current)), line,
                                              IdentRun(source, current)))
             /\ errors' = errors
             /\ current' = IdentRunEnd(source, current)]_vars

(* C5: the scan returns Err with the recorded errors exactly when at least *)
(* one error was recorded, and then no tokens; otherwise Ok with the       *)
(* tokens.                                                                  *)
C5_ErrIffErrorRecorded ==
    pc = "done" =>
        /\ result.kind \in {"Ok", "Err"}
        /\ result.kind = "Err" <=> errors # <<>>
        /\ result.kind = "Err" =>
              /\ result.errors = errors
              /\ Len(result.errors) >= 1
              /\ DOMAIN result = {"kind", "errors"}
        /\ result.kind = "Ok" =>
              /\ errors = <<>>
              /\ result.tokens = tokens

(* A failed scan that recorded two errors and had scanned a token.         *)
C5_Witness ==
    /\ pc = "done"
    /\ result.kind = "Err"
    /\ Len(errors) >= 2
    /\ Len(tokens) >= 2

(* C6: a character at a token start that matches no lexical rule is        *)
(* consumed, records one "Unexpected character" error at its line and      *)
(* nothing else, and the scan goes on after it.                             *)
C6_UnexpectedCharacter ==
    [][(AtTokenStart /\ ~MatchesARule(CharAtOffset(source, current)))
          => /\ errors' = Append(errors, ScanErr(line, "Unexpected character"))
             /\ tokens' = tokens
             /\ line' = line
             /\ current' = current + Len(Encode(CharAtOffset(source, current)))
             /\ pc' = "scanning"]_vars

(* C7: a quote at a token start with no quote after it records one         *)
(* "Unterminated string literal" error at the line of the opening quote    *)
(* and pushes no token.                                                     *)
C7_UnterminatedString ==
    [][(/\ AtTokenStart
        /\ source[current + 1] = "\""
        /\ \A k \in (current + 2)..Len(source) : source[k] # "\"")
          => /\ errors' = Append(errors, ScanErr(line, "Unterminated string literal"))
             /\ tokens' = tokens]_vars

(* C8: every token of a successful scan has the line of its first byte:    *)
(* 1 + the number of newlines before its offset.                            *)
C8_TokenLineIsStartLine ==
    result.kind = "Ok" =>
        \A k \in 1..Len(result.tokens) :
            result.tokens[k].line
                = 1 + NewlinesBefore(source, result.tokens[k].offset)

(* C9: the scan never panics, whatever validly encoded source it is given. *)
C9_NeverPanics == pc # "panicked"

(* C10: '&' and '|' at a token start push BitAnd and BitOr at that offset  *)
(* and record no error.                                                     *)
C10_BitwiseSymbols ==
    [][(AtTokenStart /\ source[current + 1] \in {"&", "|"})
          => /\ tokens' = Append(tokens,
                                 SimpleToken(IF source[current + 1] = "&"
                                             THEN "BitAnd" ELSE "BitOr",
                                             current, line))
             /\ errors' = errors
             /\ current' = current + 1]_vars

----------------------------------------------------------------------------
(* Helpers of the claims about operators, comments, numbers and strings.   *)

(* The first offset j >= i at which src has the byte c, Len(src) if none.  *)
RECURSIVE IndexOfFrom(_, _, _)
IndexOfFrom(src, i, c) ==
    IF i >= Len(src) \/ src[i + 1] = c THEN i ELSE IndexOfFrom(src, i + 1, c)

(* The offset after the maximal run of decimal digits from offset i.       *)
RECURSIVE DigitRunEnd(_, _)
DigitRunEnd(src, i) ==
    IF i < Len(src) /\ src[i + 1] \in Digits THEN DigitRunEnd(src, i + 1) ELSE i

(* A '.' at offset i that is immediately followed by a digit.              *)
HasFraction(src, i) ==
    i + 1 < Len(src) /\ src[i + 1] = "." /\ src[i + 2] \in Digits

(* The offset after the number lexeme that starts at offset i.             *)
NumberEnd(src, i) ==
    IF HasFraction(src, DigitRunEnd(src, i))
    THEN DigitRunEnd(src, DigitRunEnd(src, i) + 1)
    ELSE DigitRunEnd(src, i)

(* The decimal value of a digit run that is known to fit 32 bits.          *)
RECURSIVE DecimalValue(_)
DecimalValue(digs) ==
    IF digs = <<>> THEN 0
    ELSE DecimalValue(SubSeq(digs, 1, Len(digs) - 1)) * 10
            + DigitVal(digs[Len(digs)])

(* The digit run, leading zeros aside, is at most i32::MAX.  Compared      *)
(* digit by digit, so that no number beyond 32 bits is computed.            *)
I32MaxDigits == <<"2", "1", "4", "7", "4", "8", "3", "6", "4", "7">>

RECURSIVE DigitsLeq(_, _)
DigitsLeq(a, b) ==
    IF a = <<>> THEN TRUE
    ELSE IF DigitVal(Head(a)) < DigitVal(Head(b)) THEN TRUE
    ELSE IF DigitVal(Head(a)) > DigitVal(Head(b)) THEN FALSE
    ELSE DigitsLeq(Tail(a), Tail(b))

FitsI32(digs) ==
    LET d == StripLeadingZeros(digs)
    IN  \/ Len(d) < Len(I32MaxDigits)
        \/ Len(d) = Len(I32MaxDigits) /\ DigitsLeq(d, I32MaxDigits)

(* The length of the lexeme of a token that is not Eof: the stored length  *)
(* of a literal, 2 for a two-character operator, 1 for the other symbols.   *)
TokenLength(tok) ==
    IF "length" \in DOMAIN tok THEN tok.length
    ELSE IF tok.type \in {TwoCharType(c) : c \in OneOrTwoCharSymbols} THEN 2
    ELSE 1

----------------------------------------------------------------------------
(* C11: a token that begins at '!', '=', '<' or '>' is the two-character   *)
(* token, consuming both characters, when the next character is '=', and   *)
(* otherwise the one-character token, consuming one; no error either way.   *)
C11_Step ==
    (AtTokenStart /\ source[current + 1] \in OneOrTwoCharSymbols)
       => /\ errors' = errors
          /\ IF current + 1 < Len(source) /\ source[current + 2] = "="
             THEN /\ tokens' = Append(tokens,
                                      SimpleToken(TwoCharType(source[current + 1]),
                                                  current, line))
                  /\ current' = current + 2
             ELSE /\ tokens' = Append(tokens,
                                      SimpleToken(OneCharType(source[current + 1]),
                                                  current, line))
                  /\ current' = current + 1

C11_TwoCharOperators == [][C11_Step]_vars

(* C12: in a successful output every token starts at or after the end of   *)
(* the token before it.                                                     *)
C12_OffsetsMonotonic ==
    result.kind = "Ok" =>
        \A k \in 1..(Len(result.tokens) - 1) :
            result.tokens[k + 1].offset
                >= result.tokens[k].offset + TokenLength(result.tokens[k])

(* A successful output with a literal of several bytes that does not      *)
(* start the source and is followed by a further token before Eof.          *)
C12_Witness ==
    /\ result.kind = "Ok"
    /\ \E k \in 1..(Len(result.tokens) - 2) :
          /\ "length" \in DOMAIN result.tokens[k]
          /\ result.tokens[k].length >= 2
          /\ result.tokens[k].offset >= 1

(* C13: every token pushed, Eof aside, lies within the source.             *)
C13_TokensWithinSource ==
    \A k \in 1..Len(tokens) :
        tokens[k].type # "Eof" =>
            tokens[k].offset + TokenLength(tokens[k]) <= Len(source)

(* A literal and a symbol have been pushed, the last token ending at the   *)
(* end of the source.                                                       *)
C13_Witness ==
    /\ Len(tokens) >= 2
    /\ \E k \in 1..Len(tokens) : "length" \in DOMAIN tokens[k]
    /\ tokens[Len(tokens)].type # "Eof"
    /\ tokens[Len(tokens)].offset + TokenLength(tokens[Len(tokens)]) = Len(source)

(* C14: after '//' at a token start everything up to the next newline or   *)
(* the end of the input is skipped without a token or an error, the        *)
(* newline is left to be scanned; a '/' not followed by '/' pushes Slash.   *)
C14_Step ==
    (AtTokenStart /\ source[current + 1] = "/")
       => /\ errors' = errors
          /\ line' = line
          /\ pc' = "scanning"
          /\ IF current + 1 < Len(source) /\ source[current + 2] = "/"
             THEN /\ tokens' = tokens
                  /\ current' = IndexOfFrom(source, current + 2, "\n")
             ELSE /\ tokens' = Append(tokens, SimpleToken("Slash", current, line))
                  /\ current' = current + 1

C14_LineComment == [][C14_Step]_vars

(* C15: a number lexeme is the maximal digit run and, only if a '.' and a  *)
(* digit follow, the '.' and a further maximal digit run; it pushes a      *)
(* Float token if a fraction was consumed and an Integer token otherwise,   *)
(* at the lexeme's offset and with its byte length.                         *)
C15_Step ==
    (AtTokenStart /\ source[current + 1] \in Digits)
       => LET end == NumberEnd(source, current)
              pushed == tokens'[Len(tokens')]
          IN  /\ current' = end
              /\ errors' = errors
              /\ Len(tokens') = Len(tokens) + 1
              /\ SubSeq(tokens', 1, Len(tokens)) = tokens
              /\ pushed.type = IF HasFraction(source, DigitRunEnd(source, current))
                               THEN "Float" ELSE "Integer"
              /\ pushed.offset = current
              /\ pushed.length = end - current
              /\ pushed.line = line

C15_NumberLexeme == [][C15_Step]_vars

(* C16: a string literal that is terminated pushes one String token at the *)
(* offset of the opening quote, whose length spans both quotes and whose   *)
(* payload is the bytes strictly between the opening quote and the first   *)
(* quote after it, unchanged.                                               *)
C16_Step ==
    (/\ AtTokenStart
     /\ source[current + 1] = "\""
     /\ IndexOfFrom(source, current + 1, "\"") < Len(source))
       => LET close == IndexOfFrom(source, current + 1, "\"")
              pushed == tokens'[Len(tokens')]
          IN  /\ current' = close + 1
              /\ errors' = errors
              /\ Len(tokens') = Len(tokens) + 1
              /\ SubSeq(tokens', 1, Len(tokens)) = tokens
              /\ pushed.type = "String"
              /\ pushed.offset = current
              /\ pushed.length = close + 1 - current
              /\ pushed.value = Slice(source, current + 1, close)

C16_StringLiteral == [][C16_Step]_vars

(* C19: a digit run without a fraction whose value is above i32::MAX       *)
(* records one "Invalid integer value" error at the current line, pushes   *)
(* no token and leaves the cursor after the run; a run whose value fits     *)
(* pushes an Integer token with that value.                                 *)
C19_Step ==
    (/\ AtTokenStart
     /\ source[current + 1] \in Digits
     /\ ~HasFraction(source, DigitRunEnd(source, current)))
       => LET end == DigitRunEnd(source, current)
              run == Slice(source, current, end)
          IN  /\ current' = end
              /\ pc' = "scanning"
              /\ IF FitsI32(run)
                 THEN /\ errors' = errors
                      /\ tokens' = Append(tokens,
                                          LiteralToken("Integer", current,
                                                       end - current, line,
                                                       DecimalValue(run)))
                 ELSE /\ tokens' = tokens
                      /\ errors' = Append(errors,
                                          ScanErr(line, "Invalid integer value"))

C19_IntegerRange == [][C19_Step]_vars

(* C20: a space, tab or carriage return at a token start moves the cursor  *)
(* by one and changes nothing else; a newline also adds one to the line.    *)
(* Offsets are not reset by a newline: in the source of the whitespace     *)
(* test the Comma is at offset 6 and the Plus at offset 10, both on line 2. *)
WhitespaceTestSource ==
    <<"(", ")", " ", "{", "}", "\n", ",", ".", "-", "\t", "+", ";", "*">>

C20_Step ==
    /\ (AtTokenStart /\ source[current + 1] \in {" ", "\t", "\r"})
          => /\ current' = current + 1
             /\ line' = line
             /\ tokens' = tokens
             /\ errors' = errors
    /\ (AtTokenStart /\ source[current + 1] = "\n")
          => /\ current' = current + 1
             /\ line' = line + 1
             /\ tokens' = tokens
             /\ errors' = errors
    /\ (source = WhitespaceTestSource /\ pc' = "done")
          => /\ tokens'[5] = SimpleToken("Comma", 6, 2)
             /\ tokens'[8] = SimpleToken("Plus", 10, 2)

C20_WhitespaceFrame == [][C20_Step]_vars

(* A newline has just been scanned after a token was pushed, and a tab or  *)
(* a carriage return is the next to be scanned.                             *)
C20_Witness ==
    /\ pc = "scanning"
    /\ current >= 1
    /\ start = current - 1
    /\ source[current] = "\n"
    /\ line = 2
    /\ Len(tokens) >= 1
    /\ current < Len(source)

----------------------------------------------------------------------------
(* The keyword lookup as a state machine: a call of try_as_keyword with a  *)
(* text, an offset and a line, then its return.                             *)

TextLetters == {"i", "I", "f", "F", "n", "_", "1"}

RECURSIVE TextsUpTo(_)
TextsUpTo(n) ==
    IF n = 0 THEN {<<>>}
    ELSE LET shorter == TextsUpTo(n - 1)
         IN  shorter \cup {Append(s, c) : s \in {x \in shorter : Len(x) = n - 1},
                                          c \in TextLetters}

to_ascii_uppercase(c) ==
    IF \E k \in 1..26 : LowerCase[k] = c
    THEN UpperCase[CHOOSE k \in 1..26 : LowerCase[k] = c]
    ELSE c

(* The names of all the variants of Token, as declared, in lower case, in  *)
(* upper case and in alternating case; the names with a letter added or    *)
(* the last letter dropped; short texts over TextLetters.                   *)
KeywordTexts ==
    LET names == {v.name : v \in KeywordVariants \cup OtherVariants}
        lower(s) == [k \in 1..Len(s) |-> to_ascii_lowercase(s[k])]
        upper(s) == [k \in 1..Len(s) |-> to_ascii_uppercase(s[k])]
        mixed(s) == [k \in 1..Len(s) |-> IF k % 2 = 0 THEN to_ascii_uppercase(s[k])
                                         ELSE to_ascii_lowercase(s[k])]
    IN  names
          \cup {lower(s) : s \in names}
          \cup {upper(s) : s \in names}
          \cup {mixed(s) : s \in names}
          \cup {Append(lower(s), "s") : s \in names}
          \cup {<<"_">> \o lower(s) : s \in names}
          \cup {SubSeq(s, 1, Len(s) - 1) : s \in names}
          \cup TextsUpTo(MaxTextLen)

InitKeyword ==
    /\ source = <<>>
    /\ start = 0
    /\ current = 0
    /\ line = 1
    /\ tokens = <<>>
    /\ errors = <<>>
    /\ pc = "idle"
    /\ result = NoResult
    /\ call \in [fn : {"try_as_keyword"}, text : KeywordTexts,
                 offset : 0..MaxOffset, line : 1..MaxLineNo,
                 done : {FALSE}, ret : {NoToken}]

CallTryAsKeyword ==
    /\ call.fn = "try_as_keyword"
    /\ ~call.done
    /\ call' = [call EXCEPT !.done = TRUE,
                            !.ret = try_as_keyword(call.text, call.offset, call.line)]
    /\ UNCHANGED <<source, start, current, line, tokens, errors, pc, result>>

NextKeyword == CallTryAsKeyword

SpecKeyword == InitKeyword /\ [][NextKeyword]_vars

(* The 15 reserved words and the token type of each.                       *)
ReservedWords ==
    {[word |-> <<"c", "l", "a", "s", "s">>, type |-> "Class"],
     [word |-> <<"i", "f">>, type |-> "If"],
     [word |-> <<"e", "l", "s", "e">>, type |-> "Else"],
     [word |-> <<"t", "r", "u", "e">>, type |-> "True"],
     [word |-> <<"f", "a", "l", "s", "e">>, type |-> "False"],
     [word |-> <<"f", "n">>, type |-> "Fn"],
     [word |-> <<"f", "o", "r">>, type |-> "For"],
     [word |-> <<"m", "u", "t">>, type |-> "Mut"],
     [word |-> <<"w", "h", "i", "l", "e">>, type |-> "While"],
     [word |-> <<"l", "o", "o", "p">>, type |-> "Loop"],
     [word |-> <<"b", "r", "e", "a", "k">>, type |-> "Break"],
     [word |-> <<"r", "e", "t", "u", "r", "n">>, type |-> "Return"],
     [word |-> <<"t", "h", "i", "s">>, type |-> "This"],
     [word |-> <<"s", "u", "p", "e", "r">>, type |-> "Super"],
     [word |-> <<"l", "e", "t">>, type |-> "Let"]}

ReservedMatches(text) ==
    {r \in ReservedWords :
        /\ Len(r.word) = Len(text)
        /\ \A k \in 1..Len(text) : to_ascii_lowercase(text[k]) = r.word[k]}

(* C17: try_as_keyword returns the keyword token with the given offset and *)
(* line exactly for the texts that are a reserved word, ASCII case aside,   *)
(* and None for every other text, the names of the other token kinds        *)
(* included.                                                                *)
C17_KeywordLookup ==
    (call.fn = "try_as_keyword" /\ call.done) =>
        IF ReservedMatches(call.text) # {}
        THEN \E r \in ReservedMatches(call.text) :
                call.ret = [type |-> r.type, offset |-> call.offset,
                            line |-> call.line]
        ELSE call.ret = NoToken

(* The lookup of `wHiLe` with an offset and a line that are not the first   *)
(* has returned.                                                            *)
C17_Witness ==
    /\ call.fn = "try_as_keyword"
    /\ call.done
    /\ call.text = <<"w", "H", "i", "L", "e">>
    /\ call.offset = 2
    /\ call.line = 2
    /\ call.ret.type = "While"

----------------------------------------------------------------------------
(* The expression tree and the printer of src/src/ast.rs.  The Token of    *)
(* ast.rs is the token kind of the specification: a variant without fields *)
(* (Token::Minus, Token::Star) or a literal with its payload                *)
(* (Token::Float(2.0), Token::Integer(15)).  A string is a sequence of      *)
(* characters; a float is a decimal number as ParseF32 yields it.           *)

KindToken(type) == [type |-> type]
IdentifierKind(text) == [type |-> "Identifier", ident |-> text]
StringKind(text) == [type |-> "String", text |-> text]
FloatKind(int, frac) == [type |-> "Float", float |-> [int |-> int, frac |-> frac]]
IntegerKind(n) == [type |-> "Integer", int |-> n]

Binary(left, op, right) ==
    [kind |-> "Binary", left |-> left, op |-> op, right |-> right]
Grouping(expr) == [kind |-> "Grouping", expr |-> expr]
Literal(value) == [kind |-> "Literal", value |-> value]
Unary(op, right) == [kind |-> "Unary", op |-> op, right |-> right]

Ok(value) == [kind |-> "Ok", value |-> value]

(* The name of a variant of Token, as derive(Debug) prints it.             *)
VariantName(type) ==
    (CHOOSE v \in KeywordVariants \cup OtherVariants : v.type = type).name

(* <str as Debug>::fmt: the text in quotes, with quotes, backslashes and   *)
(* control characters escaped.                                              *)
DebugChar(c) ==
    CASE c = "\"" -> <<"\\", "\"">>
      [] c = "\\" -> <<"\\", "\\">>
      [] c = "\n" -> <<"\\", "n">>
      [] c = "\t" -> <<"\\", "t">>
      [] c = "\r" -> <<"\\", "r">>
      [] OTHER -> <<c>>

RECURSIVE DebugChars(_)
DebugChars(text) ==
    IF text = <<>> THEN <<>> ELSE DebugChar(Head(text)) \o DebugChars(Tail(text))

DebugStr(text) == <<"\"">> \o DebugChars(text) \o <<"\"">>

DigitChar(d) ==
    CASE d = 0 -> "0" [] d = 1 -> "1" [] d = 2 -> "2" [] d = 3 -> "3"
      [] d = 4 -> "4" [] d = 5 -> "5" [] d = 6 -> "6" [] d = 7 -> "7"
      [] d = 8 -> "8" [] d = 9 -> "9"

RECURSIVE DebugNat(_)
DebugNat(n) ==
    IF n < 10 THEN <<DigitChar(n)>>
    ELSE Append(DebugNat(n \div 10), DigitChar(n % 10))

(* <i32 as Debug>::fmt: the decimal digits, after a '-' when negative.     *)
DebugI32(n) == IF n < 0 THEN <<"-">> \o DebugNat(0 - n) ELSE DebugNat(n)

(* <f32 as Debug>::fmt for a decimal number that is short of an exponent:  *)
(* at least one digit on each side of the point.                            *)
DebugF32(f) ==
    (IF f.int = <<>> THEN <<"0">> ELSE f.int)
        \o <<".">> \o (IF f.frac = <<>> THEN <<"0">> ELSE f.frac)

(* derive(Debug) of a Token: the name, and the payload in parentheses.     *)
DebugToken(tok) ==
    CASE tok.type = "Identifier" ->
            VariantName(tok.type) \o <<"(">> \o DebugStr(tok.ident) \o <<")">>
      [] tok.type = "String" ->
            VariantName(tok.type) \o <<"(">> \o DebugStr(tok.text) \o <<")">>
      [] tok.type = "Float" ->
            VariantName(tok.type) \o <<"(">> \o DebugF32(tok.float) \o <<")">>
      [] tok.type = "Integer" ->
            VariantName(tok.type) \o <<"(">> \o DebugI32(tok.int) \o <<")">>
      [] OTHER -> VariantName(tok.type)

(* AstPrinter::visit_literal.                                               *)
visit_literal(value) ==
    Ok(CASE value.type = "Identifier" -> DebugStr(value.ident)
         [] value.type = "String" -> DebugStr(value.text)
         [] value.type = "Float" -> DebugF32(value.float)
         [] value.type = "Integer" -> DebugI32(value.int)
         [] OTHER -> <<"n", "i", "l">>)

RECURSIVE visit(_)

(* Expression::accept.                                                      *)
accept(expression) == visit(expression)

(* A mutant of visit_binary: the operands are printed before the operator. *)
visit_binary_Infix(left, op, right) ==
    LET l == accept(left)
        r == accept(right)
    IN  IF l.kind # "Ok" THEN l
        ELSE IF r.kind # "Ok" THEN r
        ELSE Ok(<<"(", " ">> \o l.value \o <<" ">> \o DebugToken(op) \o <<" ">>
                   \o r.value \o <<" ", ")">>)

(* AstPrinter::visit_binary: format!("( {:?} {} {} )", op, left, right),   *)
(* each `?` returning the error of the operand.                             *)
visit_binary(left, op, right) ==
    LET l == accept(left)
        r == accept(right)
    IN  IF l.kind # "Ok" THEN l
        ELSE IF r.kind # "Ok" THEN r
        ELSE Ok(<<"(", " ">> \o DebugToken(op) \o <<" ">> \o l.value \o <<" ">>
                   \o r.value \o <<" ", ")">>)

(* AstPrinter::visit_grouping: format!("( group {} )", expr).              *)
visit_grouping(expr) ==
    LET e == accept(expr)
    IN  IF e.kind # "Ok" THEN e
        ELSE Ok(<<"(", " ", "g", "r", "o", "u", "p", " ">> \o e.value \o <<" ", ")">>)

(* AstPrinter::visit_unary: format!("( {:?} {} )", op, right).             *)
visit_unary(op, right) ==
    LET r == accept(right)
    IN  IF r.kind # "Ok" THEN r
        ELSE Ok(<<"(", " ">> \o DebugToken(op) \o <<" ">> \o r.value \o <<" ", ")">>)

(* Visitor::visit: the dispatch on the variant of the expression.          *)
visit(expression) ==
    CASE expression.kind = "Binary" ->
            visit_binary(expression.left, expression.op, expression.right)
      [] expression.kind = "Grouping" -> visit_grouping(expression.expr)
      [] expression.kind = "Literal" -> visit_literal(expression.value)
      [] expression.kind = "Unary" -> visit_unary(expression.op, expression.right)

----------------------------------------------------------------------------
(* The printer as a state machine: a call of accept with the printer on a  *)
(* tree, then its return.                                                   *)

LiteralValues ==
    {FloatKind(<<"2">>, <<>>), IntegerKind(15), StringKind(<<"a", "\"">>),
     KindToken("True")}

OperatorTokens == {KindToken("Minus"), KindToken("Star")}

(* The expression trees of exactly n nodes.                                *)
RECURSIVE ExprsOfSize(_)
ExprsOfSize(n) ==
    IF n = 1 THEN {Literal(v) : v \in LiteralValues}
    ELSE {Grouping(e) : e \in ExprsOfSize(n - 1)}
           \cup {Unary(KindToken("Minus"), e) : e \in ExprsOfSize(n - 1)}
           \cup UNION {{Binary(l, op, r) : l \in ExprsOfSize(k),
                                           op \in OperatorTokens,
                                           r \in ExprsOfSize(n - 1 - k)}
                       : k \in 1..(n - 2)}

(* The tree of the test print_ast.                                         *)
PrintAstTestExpr ==
    Binary(Unary(KindToken("Minus"), Literal(FloatKind(<<"2">>, <<>>))),
           KindToken("Star"),
           Grouping(Literal(IntegerKind(15))))

(* Trees of literals and operators that the small trees leave out.         *)
MoreExprs ==
    {PrintAstTestExpr,
     Literal(IdentifierKind(<<"x", "_", "1">>)),
     Literal(StringKind(<<"a", "\\", "\n">>)),
     Literal(IntegerKind(-7)),
     Literal(FloatKind(<<>>, <<"5">>)),
     Literal(KindToken("Eof")),
     Unary(KindToken("Bang"), Literal(KindToken("False"))),
     Binary(Literal(IntegerKind(0)), IntegerKind(3), Literal(StringKind(<<>>)))}

Exprs == MoreExprs \cup UNION {ExprsOfSize(n) : n \in 1..MaxNodes}

InitPrinter ==
    /\ source = <<>>
    /\ start = 0
    /\ current = 0
    /\ line = 1
    /\ tokens = <<>>
    /\ errors = <<>>
    /\ pc = "idle"
    /\ result = NoResult
    /\ call \in [fn : {"accept"}, expr : Exprs, done : {FALSE}, ret : {Ok(<<>>)}]

CallAccept ==
    /\ call.fn = "accept"
    /\ ~call.done
    /\ call' = [call EXCEPT !.done = TRUE, !.ret = accept(call.expr)]
    /\ UNCHANGED <<source, start, current, line, tokens, errors, pc, result>>

NextPrinter == CallAccept

SpecPrinter == InitPrinter /\ [][NextPrinter]_vars

(* The text `( Star ( Minus 2.0 ) ( group 15 ) )`.                          *)
PrintAstTestText ==
    <<"(", " ", "S", "t", "a", "r", " ", "(", " ", "M", "i", "n", "u", "s", " ", "2", ".", "0", " ", ")", " ",
      "(", " ", "g", "r", "o", "u", "p", " ", "1", "5", " ", ")", " ", ")">>

(* The rendering of a token that has no data as an operator: its name.     *)
OperatorText(op) ==
    CASE op.type = "Minus" -> <<"M", "i", "n", "u", "s">>
      [] op.type = "Star" -> <<"S", "t", "a", "r">>
      [] op.type = "Bang" -> <<"B", "a", "n", "g">>

----------------------------------------------------------------------------
(* C21: every iteration of the main loop, whatever branch it takes, moves  *)
(* the cursor forward by at least one; in every state                       *)
(* 0 <= start <= current <= source.len(); the line starts at 1 and never    *)
(* decreases.                                                               *)
C21_CursorBounds ==
    /\ 0 <= start
    /\ start <= current
    /\ current <= Len(source)
    /\ line >= 1

C21_Step ==
    /\ AtTokenStart => current' >= current + 1
    /\ line' >= line
    /\ C21_CursorBounds'

C21_CursorProgress ==
    /\ (start = 0 /\ current = 0 /\ line = 1)
    /\ [][C21_Step]_vars

(* An iteration that recorded an error has been followed by one that        *)
(* consumed a lexeme of two bytes or more.                                  *)
C21_Witness ==
    /\ pc = "scanning"
    /\ errors # <<>>
    /\ start >= 1
    /\ current >= start + 2

(* C22: on an ASCII-only source no character is read at an index at or     *)
(* beyond source.len().  A read through char_at at such an index is the     *)
(* only way an ASCII-only scan can panic, so the scan never panics; at the  *)
(* end of the input peek yields '\0' and advance_if yields false, and with  *)
(* fewer than two bytes left peek_next yields '\0'.                         *)
IsAsciiSource == \A k \in 1..Len(source) : source[k] \notin {"C2", "A2"}

C22_NoReadPastEnd ==
    (IsAsciiSource /\ pc # "idle") =>
        /\ pc # "panicked"
        /\ is_at_end(source, Self) =>
              /\ peek(source, Self) = Nul
              /\ \A c \in Alphabet \cup {Nul} :
                    advance_if(source, Self, c) = [s |-> Self, b |-> FALSE]
        /\ current + 1 >= Len(source) => peek_next(source, Self) = Nul
        /\ ~is_at_end(source, Self) => peek(source, Self) = source[current + 1]
        /\ current + 1 < Len(source) => peek_next(source, Self) = source[current + 2]

(* The scan of an ASCII-only source that ends in a digit run and a '.' has  *)
(* returned: the run became an Integer and the '.' a Dot, with no error.    *)
C22_Witness ==
    /\ IsAsciiSource
    /\ pc = "done"
    /\ errors = <<>>
    /\ Len(source) >= 2
    /\ source[Len(source)] = "."
    /\ source[Len(source) - 1] \in Digits
    /\ Len(tokens) >= 3
    /\ tokens[Len(tokens) - 2].type = "Integer"
    /\ tokens[Len(tokens) - 1].type = "Dot"

====
